---- MODULE Spec2Model ----
(***************************************************************************)
(* Greedy set cover solvers (hybseldesign/utils/set_cover.py) and the      *)
(* probe coverage analyzer (hybseldesign/coverage_analysis.py).            *)
(*                                                                         *)
(* Numbers: the coverage fraction p is the rational k/PDen; costs are      *)
(* integers, and the float infinity is the distinguished value Inf.  A     *)
(* ratio float(cost)/needed is kept as the pair (num, den) and compared    *)
(* by cross-multiplication, which agrees with the comparison of the        *)
(* correctly rounded quotients for the small operands used here.           *)
(***************************************************************************)
EXTENDS Integers, Sequences, FiniteSets, TLC

\* ------------------------------------------------------------------ bounds
NumSets == 2        \* set identifiers are 1..NumSets
NumElems == 2       \* elements of a universe are 1..NumElems
MaxCost == 2        \* finite costs given by a caller are -1..MaxCost
PDen == 2           \* coverage fractions given by a caller are k/PDen
MaxRank == 1        \* ranks given by a caller are 0..MaxRank
MaxSeqLen == 2      \* a chromosome has at most MaxSeqLen bases
MaxProbeLen == 3    \* a probe has 2..MaxProbeLen bases
MaxChrs == 2        \* a genome has 1..MaxChrs chromosomes
MaxProbes == 2      \* a probe set has 1..MaxProbes probes
LongSeqLen == 7     \* the length of a chromosome of one repeated base
MaxIntervals == 3   \* a list of intervals to merge has 0..MaxIntervals of them
MaxCoord == 4       \* the intervals to merge lie in [0, MaxCoord)
MaxInputProbes == 4 \* a list of probes to filter has 0..MaxInputProbes probes

SetIds == 1..NumSets
Elements == 1..NumElems
Inf == MaxCost + 1                       \* float('inf') as a cost
CostValues == (0..MaxCost) \cup {Inf}    \* costs that pass validation
PValues == 0..PDen                       \* numerators of p in [0,1]
UniverseIds == {0, 1}

\* ----------------------------------------------------------------- helpers
Min(a, b) == IF a <= b THEN a ELSE b
Max(a, b) == IF a >= b THEN a ELSE b

Range(f) == {f[x] : x \in DOMAIN f}

Perms(S) == {f \in [1..Cardinality(S) -> S] : Range(f) = S}

\* list.remove(x): the list without its first occurrence of x
Remove(list, x) ==
  LET i == CHOOSE k \in 1..Len(list) :
             list[k] = x /\ \A j \in 1..(k-1) : list[j] # x
  IN  [k \in 1..(Len(list) - 1) |-> IF k < i THEN list[k] ELSE list[k+1]]

\* float('inf') and the ratios float(cost)/needed
InfRatio == [inf |-> TRUE, num |-> 0, den |-> 1]
\* a variant that ignores how much a set covers
Ratio_CostAlone(cost, needed) ==
  IF cost = Inf THEN InfRatio
  ELSE [inf |-> FALSE, num |-> cost, den |-> 1]

Ratio(cost, needed) ==
  IF cost = Inf THEN InfRatio
  ELSE [inf |-> FALSE, num |-> cost, den |-> needed]
\* a variant in which a tie also replaces the running minimum
RatioLess_OrEqual(r1, r2) ==
  /\ ~r1.inf
  /\ (r2.inf \/ r1.num * r2.den <= r2.num * r1.den)

\* r1 < r2 on floats
RatioLess(r1, r2) ==
  /\ ~r1.inf
  /\ (r2.inf \/ r1.num * r2.den < r2.num * r1.den)

\* int(n - p*n) for p = pnum/PDen in [0,1]: the floor of n - p*n
FloorUncovered(n, pnum) == (n * PDen - pnum * n) \div PDen

VARIABLES
  approx_args,     \* approx: the arguments sets, costs, p and the order of sets.keys()
  approx_locals,   \* approx: its local variables and where it is (pc)
  multi_args,      \* approx_multiuniverse: sets, costs, universe_p, ranks and
                   \* the iteration order of the set of identifiers
  multi_locals,    \* approx_multiuniverse: its local variables and pc
  analyzer_args,   \* Analyzer.__init__: probes (in the order in which a dict
                   \* of them is iterated), target_genomes, mismatches,
                   \* lcf_thres, kmer_size, num_kmers_per_probe
  analyzer_self,   \* Analyzer: the k-mer map, target_covers, bp_covered,
                   \* average_coverage, and where run() is (pc)
  merge_overlapping_call,  \* interval.merge_overlapping: its argument, its
                           \* result, and whether it has returned (pc)
  duplicate_filter_self    \* DuplicateFilter: the argument of filter(),
                           \* input_probes, output_probes, and pc

vars == <<approx_args, approx_locals, multi_args, multi_locals,
          analyzer_args, analyzer_self,
          merge_overlapping_call, duplicate_filter_self>>

\* a function that is not being called
NotCalled == [pc |-> "not called"]
ApproxIdle == <<approx_args, approx_locals>>
MultiIdle == <<multi_args, multi_locals>>
AnalyzerIdle == <<analyzer_args, analyzer_self>>
LibraryIdle == <<merge_overlapping_call, duplicate_filter_self>>
LibraryNotCalled ==
  /\ merge_overlapping_call = NotCalled
  /\ duplicate_filter_self = NotCalled

\* a variant that takes nothing out of the universe
DifferenceUpdate_Nothing(universe, s) == universe

\* universe.difference_update(s): what is left of the universe
DifferenceUpdate(universe, s) == universe \ s

\* ------------------------------------------------------------------ approx
\* None for id_min_ratio
None == 0

\* the union of all input sets
ApproxUniverse(sets) == UNION {sets[id] : id \in DOMAIN sets}

\* One pass of the inner for loop of approx over the candidates in list
\* order, from the running minimum best.  The result is the running minimum
\* after the pass; err is set when costs[id] raises KeyError.
RECURSIVE ApproxScan(_, _, _, _, _, _)
ApproxScan(list, sets, costs, universe, num_left_to_cover, best) ==
  IF list = <<>> \/ best.err THEN best
  ELSE
    LET id == Head(list)
        num_covered == Cardinality(sets[id] \cap universe)
        num_needed_covered == Min(num_left_to_cover, num_covered)
        next ==
          IF num_needed_covered = 0 THEN best
          ELSE IF id \notin DOMAIN costs THEN [best EXCEPT !.err = TRUE]
          ELSE LET ratio == Ratio(costs[id], num_needed_covered)
               IN  IF RatioLess(ratio, best.min_ratio)
                   THEN [best EXCEPT !.id_min_ratio = id, !.min_ratio = ratio]
                   ELSE best
    IN  ApproxScan(Tail(list), sets, costs, universe, num_left_to_cover, next)

ScanStart == [id_min_ratio |-> None, min_ratio |-> InfRatio, err |-> FALSE]

\* a variant that stops one element short of the target
ApproxNumLeft_OneShort(universe, num_that_can_be_uncovered) ==
  Max(0, Cardinality(universe) - num_that_can_be_uncovered - 1)

\* a variant that allows nothing to stay uncovered
ApproxNumLeft_All(universe, num_that_can_be_uncovered) ==
  Cardinality(universe)

\* a variant that never lets the count reach zero
ApproxNumLeft_NeverZero(universe, num_that_can_be_uncovered) ==
  Max(1, Cardinality(universe) - num_that_can_be_uncovered)

\* lines 141-142: num_left_to_cover after the universe shrank
ApproxNumLeft(universe, num_that_can_be_uncovered) ==
  Max(0, Cardinality(universe) - num_that_can_be_uncovered)

\* A dict with one entry dropped, and with one entry replaced
DropKey(f, k) == [x \in (DOMAIN f) \ {k} |-> f[x]]
SetKey(f, k, v) == [x \in (DOMAIN f) \cup {k} |-> IF x = k THEN v ELSE f[x]]

UnitCosts == [id \in SetIds |-> 1]

\* costs dicts that are out of contract in one entry: a negative cost, an
\* infinite cost, a missing entry
FaultyCosts ==
  {SetKey(UnitCosts, id, v) : id \in SetIds, v \in {-1, Inf}}
    \cup {DropKey(UnitCosts, id) : id \in SetIds}

\* the sets A, B, C, D of the unweighted example, under the ids 1, 2, 3, 4
ScenarioSets == <<{1, 2, 3}, {3, 4, 5}, {5, 6, 7}, {1, 7}>>

\* The arguments a caller may pass.  costs_given = FALSE is costs=None; p is
\* the numerator of p over PDen; order is the order in which sets.keys()
\* lists the identifiers.
ApproxArgs ==
  [sets : {ScenarioSets}, order : Perms(DOMAIN ScenarioSets),
   p : PValues, costs_given : {FALSE}, costs : {UnitCosts}]
  \cup
  [sets : [SetIds -> SUBSET Elements], order : Perms(SetIds),
   p : PValues, costs_given : {FALSE}, costs : {UnitCosts}]
  \cup
  [sets : [SetIds -> SUBSET Elements], order : Perms(SetIds),
   p : PValues, costs_given : {TRUE}, costs : [SetIds -> 0..MaxCost]]
  \cup
  [sets : [SetIds -> SUBSET Elements], order : Perms(SetIds),
   p : -1..(PDen + 1), costs_given : {TRUE}, costs : FaultyCosts]
  \cup
  [sets : [SetIds -> SUBSET Elements], order : Perms(SetIds),
   p : {-1, PDen + 1}, costs_given : BOOLEAN, costs : {UnitCosts}]

\* approx at its call, before any of its statements
ApproxStart ==
  [pc |-> "start",
   costs |-> <<>>,
   universe |-> {},
   num_that_can_be_uncovered |-> 0,
   num_left_to_cover |-> 0,
   set_ids_not_in_cover |-> <<>>,
   set_ids_in_cover |-> {}]

ApproxInit ==
  /\ approx_args \in ApproxArgs
  /\ multi_args = NotCalled
  /\ multi_locals = NotCalled
  /\ analyzer_args = NotCalled
  /\ analyzer_self = NotCalled
  /\ LibraryNotCalled
  /\ approx_locals = ApproxStart

\* approx, lines 86-109: validation and set-up
ApproxCall ==
  /\ approx_locals.pc = "start"
  /\ LET a == approx_args
         universe == ApproxUniverse(a.sets)
         n == Cardinality(universe)
         uncov == FloorUncovered(n, a.p)
     IN  approx_locals' =
           IF a.p < 0 \/ a.p > PDen
           THEN [approx_locals EXCEPT !.pc = "ValueError"]
           ELSE IF a.costs_given /\ \E id \in DOMAIN a.costs : a.costs[id] < 0
           THEN [approx_locals EXCEPT !.pc = "ValueError"]
           ELSE [pc |-> "loop",
                 costs |-> IF a.costs_given THEN a.costs
                           ELSE [id \in DOMAIN a.sets |-> 1],
                 universe |-> universe,
                 num_that_can_be_uncovered |-> uncov,
                 num_left_to_cover |-> n - uncov,
                 set_ids_not_in_cover |-> a.order,
                 set_ids_in_cover |-> {}]
  /\ UNCHANGED <<approx_args, MultiIdle, AnalyzerIdle, LibraryIdle>>

\* approx, lines 111-142: one iteration of the while loop
ApproxIter ==
  /\ approx_locals.pc = "loop"
  /\ approx_locals.num_left_to_cover > 0
  /\ LET l == approx_locals
         best == ApproxScan(l.set_ids_not_in_cover, approx_args.sets, l.costs,
                            l.universe, l.num_left_to_cover, ScanStart)
         universe == DifferenceUpdate(l.universe,
                                      approx_args.sets[best.id_min_ratio])
     IN  approx_locals' =
           IF best.err THEN [l EXCEPT !.pc = "KeyError"]
           ELSE IF best.id_min_ratio = None
           THEN \* set_ids_in_cover.add(None), then list.remove(None) raises
                [l EXCEPT !.pc = "ValueError",
                          !.set_ids_in_cover = @ \cup {None}]
           ELSE [l EXCEPT
                   !.set_ids_in_cover = @ \cup {best.id_min_ratio},
                   !.set_ids_not_in_cover = Remove(@, best.id_min_ratio),
                   !.universe = universe,
                   !.num_left_to_cover =
                      ApproxNumLeft(universe, l.num_that_can_be_uncovered)]
  /\ UNCHANGED <<approx_args, MultiIdle, AnalyzerIdle, LibraryIdle>>

\* approx, line 144: return set_ids_in_cover
ApproxReturn ==
  /\ approx_locals.pc = "loop"
  /\ approx_locals.num_left_to_cover = 0
  /\ approx_locals' = [approx_locals EXCEPT !.pc = "done"]
  /\ UNCHANGED <<approx_args, MultiIdle, AnalyzerIdle, LibraryIdle>>

ApproxNext == ApproxCall \/ ApproxIter \/ ApproxReturn

SpecApprox == ApproxInit /\ [][ApproxNext]_vars

\* ---------------------------------------------------- approx_multiuniverse
\* (use_arrays only changes the container of the elements: arrays are turned
\* into sets before they are intersected, so sets are modelled.)

EmptyDict == [x \in {} |-> 0]

RECURSIVE SumOver(_, _)
\* the sum of f[x] for x in S
SumOver(S, f) ==
  IF S = {} THEN 0
  ELSE LET x == CHOOSE y \in S : TRUE IN f[x] + SumOver(S \ {x}, f)

RECURSIVE Sorted_Descending(_)
\* a variant that lists the largest first
Sorted_Descending(S) ==
  IF S = {} THEN <<>>
  ELSE LET m == CHOOSE x \in S : \A y \in S : x >= y
       IN  <<m>> \o Sorted_Descending(S \ {m})

RECURSIVE Sorted(_)
\* sorted(S) for a set of integers
Sorted(S) ==
  IF S = {} THEN <<>>
  ELSE LET m == CHOOSE x \in S : \A y \in S : x <= y
       IN  <<m>> \o Sorted(S \ {m})

\* lines 261-269: the universes, from the given sets
MultiUniverses(sets) ==
  LET ids == UNION {DOMAIN sets[set_id] : set_id \in DOMAIN sets}
  IN  [universe_id \in ids |->
         UNION {sets[set_id][universe_id] :
                  set_id \in {x \in DOMAIN sets : universe_id \in DOMAIN sets[x]}}]

\* a variant without the check of the sign of the costs
MultiValidate_AnySign(a) ==
  IF a.costs_given /\ \E set_id \in DOMAIN a.sets : set_id \notin DOMAIN a.costs
    THEN "costs is missing a value for set"
  ELSE IF a.universe_p_given
          /\ \E u \in DOMAIN a.universe_p :
               a.universe_p[u] < 0 \/ a.universe_p[u] > PDen
    THEN "The coverage fraction (p) of each universe must be in [0,1]"
  ELSE IF a.universe_p_given
          /\ \E u \in DOMAIN MultiUniverses(a.sets) : u \notin DOMAIN a.universe_p
    THEN "universe_p is missing a value for universe"
  ELSE IF a.ranks_given /\ \E set_id \in DOMAIN a.sets : set_id \notin DOMAIN a.ranks
    THEN "ranks is missing a value for set"
  ELSE ""

\* lines 248-294: the checks of the arguments, in the order of the code;
\* the result is "" when all pass and else what the ValueError says
MultiValidate(a) ==
  IF a.costs_given /\ \E id \in DOMAIN a.costs : a.costs[id] < 0
    THEN "All costs must be nonnegative"
  ELSE IF a.costs_given /\ \E set_id \in DOMAIN a.sets : set_id \notin DOMAIN a.costs
    THEN "costs is missing a value for set"
  ELSE IF a.universe_p_given
          /\ \E u \in DOMAIN a.universe_p :
               a.universe_p[u] < 0 \/ a.universe_p[u] > PDen
    THEN "The coverage fraction (p) of each universe must be in [0,1]"
  ELSE IF a.universe_p_given
          /\ \E u \in DOMAIN MultiUniverses(a.sets) : u \notin DOMAIN a.universe_p
    THEN "universe_p is missing a value for universe"
  ELSE IF a.ranks_given /\ \E set_id \in DOMAIN a.sets : set_id \notin DOMAIN a.ranks
    THEN "ranks is missing a value for set"
  ELSE ""

\* lines 364-386: the inner loop over sets[set_id].keys() for one candidate:
\* num_covered per universe, read from the memo when it is there
\* a variant that counts the whole set, whatever is left of the universe
NumCovered_WholeSet(l, sets, set_id, universe_id) ==
  Cardinality(sets[set_id][universe_id])

NumCovered(l, sets, set_id, universe_id) ==
  IF set_id \in DOMAIN l.memoized_intersect_counts[universe_id]
  THEN l.memoized_intersect_counts[universe_id][set_id]
  ELSE Cardinality(sets[set_id][universe_id] \cap l.universes[universe_id])

\* a variant that counts more than is left to cover in a universe
NumNeededCoveredAcrossUniverses_Uncapped(l, sets, set_id) ==
  SumOver(DOMAIN sets[set_id],
          [universe_id \in DOMAIN sets[set_id] |->
             NumCovered(l, sets, set_id, universe_id)])

NumNeededCoveredAcrossUniverses(l, sets, set_id) ==
  SumOver(DOMAIN sets[set_id],
          [universe_id \in DOMAIN sets[set_id] |->
             Min(l.num_left_to_cover[universe_id],
                 NumCovered(l, sets, set_id, universe_id))])

\* line 381: the memo after the candidate was looked at
Memoize(l, sets, set_id) ==
  [universe_id \in DOMAIN l.memoized_intersect_counts |->
     IF universe_id \in DOMAIN sets[set_id]
     THEN SetKey(l.memoized_intersect_counts[universe_id], set_id,
                 NumCovered(l, sets, set_id, universe_id))
     ELSE l.memoized_intersect_counts[universe_id]]

\* a variant that considers the sets of every rank at once
NotOfCurrentRank_Never(l, set_id) == FALSE

\* line 350: the rank of the candidate is not the rank being considered
\* (curr_rank_index counts from 0, sequences from 1)
NotOfCurrentRank(l, set_id) ==
  l.ranks[set_id] # l.rank_vals[l.curr_rank_index + 1]

\* lines 350-394: the body of the for loop for the candidate set_id
MultiScanOne(l, a, set_id) ==
  IF l.curr_rank_index >= Len(l.rank_vals)
  THEN [l EXCEPT !.pc = "IndexError"]     \* rank_vals[curr_rank_index]
  ELSE IF NotOfCurrentRank(l, set_id)
  THEN l
  ELSE
    LET needed == NumNeededCoveredAcrossUniverses(l, a.sets, set_id)
        m == [l EXCEPT !.memoized_intersect_counts = Memoize(l, a.sets, set_id)]
        ratio == Ratio(l.costs[set_id], needed)
    IN  IF needed = 0 THEN m
        ELSE IF RatioLess(ratio, l.min_ratio)
        THEN [m EXCEPT !.id_min_ratio = set_id, !.min_ratio = ratio]
        ELSE m

\* a variant that keeps the memoized counts of a universe that shrank
MemoAfterUpdate_Kept(memo, prev_universe_size, universe) == memo

\* lines 415-418: the memoized counts of a universe after the elements of
\* the chosen set were taken out of it
MemoAfterUpdate(memo, prev_universe_size, universe) ==
  IF Cardinality(universe) # prev_universe_size THEN EmptyDict ELSE memo

\* lines 399-418: id_min_ratio goes into the set cover
MultiSelect(l, a) ==
  LET id == l.id_min_ratio
      touched == DOMAIN l.universes \cap DOMAIN a.sets[id]
      universes == [u \in DOMAIN l.universes |->
                      IF u \in touched
                      THEN DifferenceUpdate(l.universes[u], a.sets[id][u])
                      ELSE l.universes[u]]
  IN  [l EXCEPT
        !.pc = "while",
        !.set_ids_in_cover = @ \cup {id},
        !.set_ids_not_in_cover = Remove(@, id),
        !.universes = universes,
        !.num_left_to_cover =
           [u \in DOMAIN @ |->
              IF u \in touched
              THEN Max(0, Cardinality(universes[u])
                            - l.num_that_can_be_uncovered[u])
              ELSE @[u]],
        !.memoized_intersect_counts =
           [u \in DOMAIN @ |->
              IF u \in touched
              THEN MemoAfterUpdate(@[u], Cardinality(l.universes[u]),
                                   universes[u])
              ELSE @[u]]]

\* lines 395-398: no candidate, so increase the rank being considered
MultiAdvanceRank(l) ==
  [l EXCEPT !.pc = "while", !.curr_rank_index = @ + 1]

\* a variant that stops as soon as one universe has met its target
SomeLeftToCover_InAll(l) ==
  /\ DOMAIN l.universes # {}
  /\ \A universe_id \in DOMAIN l.universes : l.num_left_to_cover[universe_id] > 0

\* the condition of the while loop, lines 331-332
SomeLeftToCover(l) ==
  \E universe_id \in DOMAIN l.universes : l.num_left_to_cover[universe_id] > 0

SetDicts ==
  UNION {[D -> (SUBSET Elements) \ {{}}] : D \in SUBSET UniverseIds}

UnitRanks == [id \in SetIds |-> 1]
FullP == [u \in UniverseIds |-> PDen]

\* universe_p dicts that are out of contract in one entry
FaultyP ==
  {SetKey(FullP, u, v) : u \in UniverseIds, v \in {-1, PDen + 1}}
    \cup {DropKey(FullP, u) : u \in UniverseIds}

\* The arguments a caller may pass.  x_given = FALSE is x=None; order is the
\* order in which the set of identifiers is iterated.
MultiArgs ==
  [sets : [SetIds -> SetDicts], order : Perms(SetIds),
   costs_given : {TRUE}, costs : [SetIds -> 0..MaxCost],
   universe_p_given : {TRUE}, universe_p : [UniverseIds -> PValues],
   ranks_given : {TRUE}, ranks : [SetIds -> 0..MaxRank]]
  \cup
  [sets : [SetIds -> SetDicts], order : Perms(SetIds),
   costs_given : BOOLEAN, costs : {UnitCosts},
   universe_p_given : BOOLEAN, universe_p : {FullP},
   ranks_given : BOOLEAN, ranks : {UnitRanks}]
  \cup
  [sets : [SetIds -> SetDicts], order : Perms(SetIds),
   costs_given : {TRUE}, costs : FaultyCosts,
   universe_p_given : {TRUE}, universe_p : {FullP},
   ranks_given : {TRUE}, ranks : [SetIds -> 0..MaxRank]]
  \cup
  [sets : [SetIds -> SetDicts], order : Perms(SetIds),
   costs_given : {TRUE}, costs : {UnitCosts},
   universe_p_given : {TRUE}, universe_p : FaultyP,
   ranks_given : {TRUE}, ranks : {UnitRanks}]
  \cup
  [sets : [SetIds -> SetDicts], order : Perms(SetIds),
   costs_given : {TRUE}, costs : {UnitCosts},
   universe_p_given : {TRUE}, universe_p : {FullP},
   ranks_given : {TRUE}, ranks : {DropKey(UnitRanks, id) : id \in SetIds}]

MultiStart ==
  [pc |-> "start", costs |-> EmptyDict, universe_p |-> EmptyDict,
   ranks |-> EmptyDict, universes |-> EmptyDict, rank_vals |-> <<>>,
   curr_rank_index |-> 0, num_that_can_be_uncovered |-> EmptyDict,
   num_left_to_cover |-> EmptyDict, memoized_intersect_counts |-> EmptyDict,
   set_ids_not_in_cover |-> <<>>, set_ids_in_cover |-> {},
   to_scan |-> <<>>, id_min_ratio |-> None, min_ratio |-> InfRatio,
   error |-> ""]

MultiInit ==
  /\ multi_args \in MultiArgs
  /\ multi_locals = MultiStart
  /\ approx_args = NotCalled
  /\ approx_locals = NotCalled
  /\ analyzer_args = NotCalled
  /\ analyzer_self = NotCalled
  /\ LibraryNotCalled

\* lines 248-328: validation and set-up
MultiSetUp(a) ==
  LET universes == MultiUniverses(a.sets)
      universe_p == IF a.universe_p_given THEN a.universe_p
                    ELSE [u \in DOMAIN universes |-> PDen]
      ranks == IF a.ranks_given THEN a.ranks
               ELSE [set_id \in DOMAIN a.sets |-> 1]
      uncov == [u \in DOMAIN universes |->
                  FloorUncovered(Cardinality(universes[u]), universe_p[u])]
  IN  IF MultiValidate(a) # ""
      THEN [MultiStart EXCEPT !.pc = "ValueError", !.error = MultiValidate(a)]
      ELSE [MultiStart EXCEPT
              !.pc = "while",
              !.costs = IF a.costs_given THEN a.costs
                        ELSE [set_id \in DOMAIN a.sets |-> 1],
              !.universe_p = universe_p,
              !.ranks = ranks,
              !.universes = universes,
              !.rank_vals = Sorted(Range(ranks)),
              !.curr_rank_index = 0,
              !.num_that_can_be_uncovered = uncov,
              !.num_left_to_cover =
                 [u \in DOMAIN universes |->
                    Cardinality(universes[u]) - uncov[u]],
              !.memoized_intersect_counts =
                 [u \in DOMAIN universes |-> EmptyDict],
              !.set_ids_not_in_cover = a.order,
              !.set_ids_in_cover = {}]

MultiCall ==
  /\ multi_locals.pc = "start"
  /\ multi_locals' = MultiSetUp(multi_args)
  /\ UNCHANGED <<multi_args, ApproxIdle, AnalyzerIdle, LibraryIdle>>

\* lines 331-341: the test of the while loop; a scan starts or the cover
\* is returned (line 420)
MultiWhile ==
  /\ multi_locals.pc = "while"
  /\ multi_locals' =
       IF SomeLeftToCover(multi_locals)
       THEN [multi_locals EXCEPT !.pc = "scan",
                                 !.to_scan = multi_locals.set_ids_not_in_cover,
                                 !.id_min_ratio = None,
                                 !.min_ratio = InfRatio]
       ELSE [multi_locals EXCEPT !.pc = "done"]
  /\ UNCHANGED <<multi_args, ApproxIdle, AnalyzerIdle, LibraryIdle>>

\* lines 342-394: the next candidate of the scan
MultiScan ==
  /\ multi_locals.pc = "scan"
  /\ multi_locals.to_scan # <<>>
  /\ multi_locals' =
       [MultiScanOne(multi_locals, multi_args, Head(multi_locals.to_scan))
          EXCEPT !.to_scan = Tail(multi_locals.to_scan)]
  /\ UNCHANGED <<multi_args, ApproxIdle, AnalyzerIdle, LibraryIdle>>

\* lines 395-418: after the scan
MultiAfterScan ==
  /\ multi_locals.pc = "scan"
  /\ multi_locals.to_scan = <<>>
  /\ multi_locals' =
       IF multi_locals.id_min_ratio = None
       THEN MultiAdvanceRank(multi_locals)
       ELSE MultiSelect(multi_locals, multi_args)
  /\ UNCHANGED <<multi_args, ApproxIdle, AnalyzerIdle, LibraryIdle>>

MultiNext == MultiCall \/ MultiWhile \/ MultiScan \/ MultiAfterScan

SpecMulti == MultiInit /\ [][MultiNext]_vars

\* ================================================================ Analyzer
\* coverage_analysis.py.  A sequence of bases is a TLA+ sequence of
\* one-letter strings; an interval is the pair <<start, end>>; Python's
\* positions are 0-based and s[lo:hi] is Slice(s, lo, hi).
Bases == {"A", "T"}
KmerSizes == {2}
NumKmersPerProbe == {2}
MismatchesValues == {0, 1}
LcfThresValues == {2, 3}

Slice(s, lo, hi) == SubSeq(s, lo + 1, hi)

\* the sequences of bases of a length in lo..hi
Sequences(lo, hi) == UNION {[1..n -> Bases] : n \in lo..hi}

\* no cover range: the predicate's None
NoCover == <<>>

\* lines 116-119: the reverse complement of a chromosome
RcMap(b) ==
  CASE b = "A" -> "T"
    [] b = "T" -> "A"
    [] b = "C" -> "G"
    [] b = "G" -> "C"
    [] OTHER -> b
ReverseComplement(sequence) ==
  [n \in 1..Len(sequence) |-> RcMap(sequence[Len(sequence) + 1 - n])]

\* genome.Genome.size(): the sum of the lengths of the chromosomes
RECURSIVE GenomeSize(_)
GenomeSize(seqs) ==
  IF seqs = <<>> THEN 0 ELSE Len(Head(seqs)) + GenomeSize(Tail(seqs))

\* probe.construct_kmer_probe_map(probes, k, num_kmers_per_probe,
\* include_positions=True): every map the random draws can produce, as the
\* set of its entries (kmer, probe, pos).  A probe no longer than k is its
\* own k-mer at position 0; a longer one has num_kmers_per_probe positions
\* drawn from 0..len-k with replacement.
KmerOffsetSets(p, k, num_kmers_per_probe) ==
  IF Len(p) <= k THEN {{0}}
  ELSE {S \in SUBSET (0..(Len(p) - k)) :
          S # {} /\ Cardinality(S) <= num_kmers_per_probe}
KmerProbeMaps(probes, k, num_kmers_per_probe) ==
  LET ps == Range(probes)
      draws == {f \in [ps -> SUBSET (0..(MaxProbeLen - k))] :
                  \A p \in ps :
                     f[p] \in KmerOffsetSets(p, k, num_kmers_per_probe)}
  IN  {UNION {{[kmer |-> Slice(p, pos, Min(Len(p), pos + k)),
                 probe |-> p, pos |-> pos] : pos \in f[p]} : p \in ps} :
         f \in draws}

\* probe.probe_covers_sequence_by_longest_common_substring(mismatches,
\* lcf_thres): the longest stretch of the window, of at least lcf_thres
\* bases, that aligns with the probe with at most mismatches mismatches (the
\* leftmost of the longest ones), in the window's coordinates; probe_start is
\* the position of the probe that is aligned with the window's first base
CoverRange(window, p, probe_start, mismatches, lcf_thres) ==
  LET n == Len(window)
      Mismatched(x, y) ==
        Cardinality({t \in x..(y - 1) :
                       window[t + 1] # p[probe_start + t + 1]})
      stretches == {c \in (0..n) \X (0..n) :
                      /\ c[2] - c[1] >= lcf_thres
                      /\ Mismatched(c[1], c[2]) <= mismatches}
  IN  IF stretches = {} THEN NoCover
      ELSE CHOOSE c \in stretches :
             \A d \in stretches :
                \/ c[2] - c[1] > d[2] - d[1]
                \/ c[2] - c[1] = d[2] - d[1] /\ c[1] <= d[1]

\* probe.find_probe_covers_in_sequence, one candidate (probe, pos) of the
\* k-mer at position i: the probe is aligned at a = i - pos, the window is
\* clipped to the sequence, and the range of the predicate is translated
\* by a.  The list of the cover found, or the empty list.
CoverAt(sequence, p, i, pos, mismatches, lcf_thres) ==
  LET a == i - pos
      lo == Max(0, a)
      hi == Min(Len(sequence), a + Len(p))
      r == CoverRange(Slice(sequence, lo, hi), p, lo - a,
                      mismatches, lcf_thres)
  IN  IF r = NoCover THEN <<>> ELSE << <<r[1] + a, r[2] + a>> >>

RECURSIVE CoversAtPosition(_, _, _, _, _, _)
\* the covers of probe p found from the candidates at position i, by pos
CoversAtPosition(sequence, p, i, offsets, mismatches, lcf_thres) ==
  IF offsets = {} THEN <<>>
  ELSE LET pos == CHOOSE x \in offsets : \A y \in offsets : x <= y
       IN  CoverAt(sequence, p, i, pos, mismatches, lcf_thres)
             \o CoversAtPosition(sequence, p, i, offsets \ {pos},
                                 mismatches, lcf_thres)

RECURSIVE ScanFrom(_, _, _, _, _, _, _)
\* the covers of probe p found from position i on, in scan order
ScanFrom(sequence, kmer_probe_map, k, p, i, mismatches, lcf_thres) ==
  IF i > Len(sequence) - k THEN <<>>
  ELSE LET kmer == Slice(sequence, i, i + k)
           offsets == {e.pos : e \in {x \in kmer_probe_map :
                                         x.kmer = kmer /\ x.probe = p}}
       IN  CoversAtPosition(sequence, p, i, offsets, mismatches, lcf_thres)
             \o ScanFrom(sequence, kmer_probe_map, k, p, i + 1,
                         mismatches, lcf_thres)

\* probe.find_probe_covers_in_sequence(sequence, kmer_probe_map, k, fn,
\* merge_overlapping=False): probe -> list of cover ranges
FindProbeCoversInSequence(sequence, kmer_probe_map, k, mismatches, lcf_thres) ==
  [p \in {e.probe : e \in kmer_probe_map} |->
     ScanFrom(sequence, kmer_probe_map, k, p, 0, mismatches, lcf_thres)]

\* ---- interval.IntervalSet
\* tuples compare as in Python: by start, then by end
IntervalLeq(c, d) == c[1] < d[1] \/ (c[1] = d[1] /\ c[2] <= d[2])

RECURSIVE SortIntervals(_)
\* sorted(list)
SortIntervals(list) ==
  IF list = <<>> THEN <<>>
  ELSE LET n == CHOOSE x \in 1..Len(list) :
                  \A y \in 1..Len(list) :
                     /\ IntervalLeq(list[x], list[y])
                     /\ (list[x] = list[y] => x <= y)
           rest == [x \in 1..(Len(list) - 1) |->
                      IF x < n THEN list[x] ELSE list[x + 1]]
       IN  <<list[n]>> \o SortIntervals(rest)

RECURSIVE Coalesce_OverlappingOnly(_, _)
\* a variant that leaves intervals that only share an endpoint apart
Coalesce_OverlappingOnly(sorted, merged) ==
  IF sorted = <<>> THEN merged
  ELSE LET next == Head(sorted)
           n == Len(merged)
       IN  IF n > 0 /\ next[1] < merged[n][2]
           THEN Coalesce_OverlappingOnly(
                  Tail(sorted),
                  [merged EXCEPT ![n] = <<merged[n][1],
                                          Max(merged[n][2], next[2])>>])
           ELSE Coalesce_OverlappingOnly(Tail(sorted), Append(merged, next))

RECURSIVE Coalesce(_, _)
\* the intervals of a sorted list, fused when next.start <= current.end
Coalesce(sorted, merged) ==
  IF sorted = <<>> THEN merged
  ELSE LET next == Head(sorted)
           n == Len(merged)
       IN  IF n > 0 /\ next[1] <= merged[n][2]
           THEN Coalesce(Tail(sorted),
                         [merged EXCEPT ![n] = <<merged[n][1],
                                                 Max(merged[n][2], next[2])>>])
           ELSE Coalesce(Tail(sorted), Append(merged, next))

\* interval.merge_overlapping(list): the canonical list
MergeOverlapping(list) == Coalesce(SortIntervals(list), <<>>)

RECURSIVE TotalLength(_)
\* the sum of end - start over a list of intervals
TotalLength(list) ==
  IF list = <<>> THEN 0
  ELSE Head(list)[2] - Head(list)[1] + TotalLength(Tail(list))

\* len(interval.IntervalSet(covers))
IntervalSetLen(covers) == TotalLength(MergeOverlapping(covers))

\* ---- Analyzer
RECURSIVE Flatten(_)
\* the concatenation of a list of lists
Flatten(lists) ==
  IF lists = <<>> THEN <<>> ELSE Head(lists) \o Flatten(Tail(lists))

\* lines 51-74: _iter_target_genomes(True), as the list of the (i, j, rc)
IterTargetGenomes(target_genomes) ==
  Flatten([i \in 1..Len(target_genomes) |->
            Flatten([j \in 1..Len(target_genomes[i]) |->
                       << <<i - 1, j - 1, FALSE>>, <<i - 1, j - 1, TRUE>> >>])])

\* the genome of a key (i, j, rc)
Gnm(target_genomes, key) == target_genomes[key[1] + 1][key[2] + 1]

\* lines 114-128: the sequences that are scanned for (gnm, rc), in order
ScannedSequences(gnm, rc) ==
  [n \in 1..Len(gnm.seqs) |->
     IF rc THEN ReverseComplement(gnm.seqs[n]) ELSE gnm.seqs[n]]

\* lines 124-128: the scanner's result for each of these sequences
ProbeCoverRanges(a, kmer_probe_map, gnm, rc) ==
  [n \in 1..Len(gnm.seqs) |->
     FindProbeCoversInSequence(ScannedSequences(gnm, rc)[n], kmer_probe_map,
                               a.kmer_size, a.mismatches, a.lcf_thres)]

\* lines 135-136: a cover range moved by length_so_far
AdjustedCovers(cover_ranges, length_so_far) ==
  [n \in 1..Len(cover_ranges) |->
     <<cover_ranges[n][1] + length_so_far, cover_ranges[n][2] + length_so_far>>]

\* lines 129-137: the adjusted covers of one sequence, probe by probe
SequenceCovers(a, probe_cover_ranges, length_so_far) ==
  Flatten([n \in 1..Len(a.probes) |->
             IF a.probes[n] \in DOMAIN probe_cover_ranges
             THEN AdjustedCovers(probe_cover_ranges[a.probes[n]], length_so_far)
             ELSE <<>>])

RECURSIVE GnmCovers(_, _, _, _, _)
\* lines 112-138: gnm_covers, from sequence n on
GnmCovers(a, sequences, ranges, n, length_so_far) ==
  IF n > Len(sequences) THEN <<>>
  ELSE SequenceCovers(a, ranges[n], length_so_far)
         \o GnmCovers(a, sequences, ranges, n + 1,
                      length_so_far + Len(sequences[n]))

\* a variant that counts the merged intervals
TotalCovered_Merged(covers) == IntervalSetLen(covers)

\* line 195: total_covered
TotalCovered(covers) == TotalLength(covers)

\* ---- floats
\* A positive float (an IEEE double) is mant * 2^(exp - 52), where the 53
\* bits of mant are kept as three limbs, 17 + 18 + 18 bits, and the first
\* limb is at least 2^16; 0.0 is FloatZero.  The operations round to
\* nearest, ties to even.  Only quotients of small nonnegative integers
\* are needed.
Limb == 2 ^ 18
TopLimb == 2 ^ 17
FloatZero == [mant |-> <<0, 0, 0>>, exp |-> 0]

\* mant + 1; the first limb is TopLimb when the carry runs out of it
Increment(mant) ==
  IF mant[3] + 1 < Limb THEN <<mant[1], mant[2], mant[3] + 1>>
  ELSE IF mant[2] + 1 < Limb THEN <<mant[1], mant[2] + 1, 0>>
  ELSE <<mant[1] + 1, 0, 0>>

\* the float of mant, of which the first bit has the weight 2^exp, followed
\* by the bit guard and then by bits that are not all 0 iff sticky
Rounded(mant, guard, sticky, exp) ==
  IF guard = 1 /\ (sticky \/ mant[3] % 2 = 1)
  THEN IF Increment(mant)[1] = TopLimb
       THEN [mant |-> <<TopLimb \div 2, 0, 0>>, exp |-> exp + 1]
       ELSE [mant |-> Increment(mant), exp |-> exp]
  ELSE [mant |-> mant, exp |-> exp]

RECURSIVE Normalized(_, _, _)
\* t, s and exp scaled by powers of two so that 1 <= t/s < 2
Normalized(t, s, exp) ==
  IF t < s THEN Normalized(2 * t, s, exp - 1)
  ELSE IF t >= 2 * s THEN Normalized(t, 2 * s, exp + 1)
  ELSE [t |-> t, s |-> s, exp |-> exp]

\* float(t) / s for integers t >= 0 and s > 0, by long division
FloatDiv(t, s) ==
  IF t = 0 THEN FloatZero
  ELSE LET nz == Normalized(t, s, 0)
           a1 == nz.t * (TopLimb \div 2)
           a2 == (a1 % nz.s) * Limb
           a3 == (a2 % nz.s) * Limb
           a4 == (a3 % nz.s) * 2
       IN  Rounded(<<a1 \div nz.s, a2 \div nz.s, a3 \div nz.s>>,
                   a4 \div nz.s, a4 % nz.s # 0, nz.exp)

\* ---- the arguments of Analyzer(...)
\* genomes of 1..max_chrs chromosomes of lo..hi bases
Genomes(max_chrs, lo, hi) ==
  {[seqs |-> s] : s \in UNION {[1..n -> Sequences(lo, hi)] : n \in 1..max_chrs}}

\* lists of 1..n distinct probes of 2..MaxProbeLen bases
ProbeLists(n) ==
  {f \in UNION {[1..m -> Sequences(2, MaxProbeLen)] : m \in 1..n} :
     \A x, y \in DOMAIN f : f[x] = f[y] => x = y}

\* One grouping of one genome with up to MaxChrs chromosomes, which may be
\* empty, and up to MaxProbes probes; or two genomes of one nonempty
\* chromosome, in one grouping or in two, and one probe; or one genome of
\* one chromosome that repeats a base LongSeqLen times.
AnalyzerArgs ==
  LET Params(target_genomes, max_probes) ==
        {[probes |-> ps, target_genomes |-> tg, mismatches |-> mm,
          lcf_thres |-> lt, kmer_size |-> k, num_kmers_per_probe |-> nk] :
           tg \in target_genomes, k \in KmerSizes,
           ps \in ProbeLists(max_probes),
           mm \in MismatchesValues, lt \in LcfThresValues,
           nk \in NumKmersPerProbe}
      one == {<< <<g>> >> : g \in Genomes(MaxChrs, 0, MaxSeqLen)}
      two == UNION {{<< <<g1, g2>> >>, << <<g1>>, <<g2>> >>} :
                      g1 \in Genomes(1, 1, MaxSeqLen),
                      g2 \in Genomes(1, 1, MaxSeqLen)}
      long == {<< <<[seqs |-> <<[n \in 1..LongSeqLen |-> b]>>]>> >> :
                 b \in Bases}
  IN  Params(one, MaxProbes) \cup Params(two, 1) \cup Params(long, MaxProbes)

\* an Analyzer right after __init__
AnalyzerStart ==
  [pc |-> "run",
   kmer_probe_map |-> {},
   todo |-> <<>>,
   sequences |-> <<>>,
   probe_cover_ranges |-> <<>>,
   target_covers |-> EmptyDict,
   bp_covered |-> EmptyDict,
   average_coverage |-> EmptyDict]

AnalyzerInit ==
  /\ analyzer_args \in AnalyzerArgs
  /\ analyzer_self = AnalyzerStart
  /\ approx_args = NotCalled
  /\ approx_locals = NotCalled
  /\ multi_args = NotCalled
  /\ multi_locals = NotCalled
  /\ LibraryNotCalled

\* lines 93-100: run() enters _find_covers_in_target_genomes, which builds
\* the k-mer map; no seed is given, the offsets are whatever is drawn
ConstructKmerProbeMap ==
  /\ analyzer_self.pc = "run"
  /\ \E kmer_probe_map \in KmerProbeMaps(analyzer_args.probes,
                                         analyzer_args.kmer_size,
                                         analyzer_args.num_kmers_per_probe) :
       analyzer_self' =
         [analyzer_self EXCEPT
            !.pc = "_find_covers_in_target_genomes",
            !.kmer_probe_map = kmer_probe_map,
            !.todo = IterTargetGenomes(analyzer_args.target_genomes)]
  /\ UNCHANGED <<analyzer_args, ApproxIdle, MultiIdle, LibraryIdle>>

\* lines 101-139: one (i, j, gnm, rc) of _find_covers_in_target_genomes;
\* sequences and probe_cover_ranges keep what the scanner was given and
\* what it returned
FindCoversInTargetGenome ==
  /\ analyzer_self.pc = "_find_covers_in_target_genomes"
  /\ analyzer_self.todo # <<>>
  /\ LET key == Head(analyzer_self.todo)
         gnm == Gnm(analyzer_args.target_genomes, key)
         sequences == ScannedSequences(gnm, key[3])
         ranges == ProbeCoverRanges(analyzer_args,
                                    analyzer_self.kmer_probe_map, gnm, key[3])
     IN  analyzer_self' =
           [analyzer_self EXCEPT
              !.pc = IF Tail(analyzer_self.todo) = <<>>
                     THEN "_compute_bp_covered_in_target_genomes"
                     ELSE "_find_covers_in_target_genomes",
              !.todo = Tail(analyzer_self.todo),
              !.sequences = sequences,
              !.probe_cover_ranges = ranges,
              !.target_covers =
                 SetKey(analyzer_self.target_covers, key,
                        GnmCovers(analyzer_args, sequences, ranges, 1, 0))]
  /\ UNCHANGED <<analyzer_args, ApproxIdle, MultiIdle, LibraryIdle>>

\* lines 141-164: _compute_bp_covered_in_target_genomes
ComputeBpCoveredInTargetGenomes ==
  /\ analyzer_self.pc = "_compute_bp_covered_in_target_genomes"
  /\ analyzer_self' =
       [analyzer_self EXCEPT
          !.pc = "_compute_average_coverage_in_target_genomes",
          !.bp_covered =
             [key \in DOMAIN analyzer_self.target_covers |->
                IntervalSetLen(analyzer_self.target_covers[key])]]
  /\ UNCHANGED <<analyzer_args, ApproxIdle, MultiIdle, LibraryIdle>>

\* lines 166-198: _compute_average_coverage_in_target_genomes; the
\* division by the size of an empty genome raises ZeroDivisionError
ComputeAverageCoverageInTargetGenomes ==
  /\ analyzer_self.pc = "_compute_average_coverage_in_target_genomes"
  /\ LET keys == IterTargetGenomes(analyzer_args.target_genomes)
         Size(n) == GenomeSize(Gnm(analyzer_args.target_genomes, keys[n]).seqs)
         empty == {n \in 1..Len(keys) : Size(n) = 0}
         stop == IF empty = {} THEN Len(keys) + 1
                 ELSE CHOOSE n \in empty : \A m \in empty : n <= m
     IN  analyzer_self' =
           [analyzer_self EXCEPT
              !.pc = IF empty = {} THEN "done" ELSE "ZeroDivisionError",
              !.average_coverage =
                 [key \in {keys[n] : n \in 1..(stop - 1)} |->
                    FloatDiv(TotalCovered(analyzer_self.target_covers[key]),
                             GenomeSize(
                               Gnm(analyzer_args.target_genomes, key).seqs))]]
  /\ UNCHANGED <<analyzer_args, ApproxIdle, MultiIdle, LibraryIdle>>

AnalyzerNext ==
  \/ ConstructKmerProbeMap
  \/ FindCoversInTargetGenome
  \/ ComputeBpCoveredInTargetGenomes
  \/ ComputeAverageCoverageInTargetGenomes

SpecAnalyzer == AnalyzerInit /\ [][AnalyzerNext]_vars

\* ================================================================= claims

\* ---- approx
\* the elements of the universe that the sets of ids cover
ApproxCovered(sets, ids) ==
  UNION {sets[id] : id \in ids \cap DOMAIN sets}

\* C1: when approx returns, the union of the returned sets holds at least
\* ceil(p*|U|) elements of U, the union of all input sets (for an integer
\* count c, c >= ceil(p*|U|) is c*PDen >= pnum*|U|); with p = 1 it is U.
C1_ApproxCoversTarget ==
  approx_locals.pc = "done" =>
    LET U == ApproxUniverse(approx_args.sets)
        covered == ApproxCovered(approx_args.sets, approx_locals.set_ids_in_cover)
    IN  /\ covered \subseteq U
        /\ Cardinality(covered) * PDen >= approx_args.p * Cardinality(U)
        /\ (approx_args.p = PDen => covered = U)

\* C1 witness: a returned partial cover of two sets that leaves part of U out
C1_Witness ==
  /\ approx_locals.pc = "done"
  /\ approx_args.p > 0 /\ approx_args.p < PDen
  /\ approx_locals.set_ids_in_cover # {}
  /\ ApproxCovered(approx_args.sets, approx_locals.set_ids_in_cover)
       # ApproxUniverse(approx_args.sets)

\* C6: approx raises at the call boundary, before any set is examined, when p
\* is outside [0,1], a cost is negative or a set id has no entry in costs.
ApproxArgsInvalid(a) ==
  \/ a.p < 0 \/ a.p > PDen
  \/ a.costs_given /\ \E id \in DOMAIN a.costs : a.costs[id] < 0
  \/ a.costs_given /\ \E id \in DOMAIN a.sets : id \notin DOMAIN a.costs

C6_ApproxRaisesAtCall ==
  (approx_locals.pc # "start" /\ ApproxArgsInvalid(approx_args)) =>
    /\ approx_locals.pc = "ValueError"
    /\ approx_locals.set_ids_in_cover = {}
    /\ approx_locals.set_ids_not_in_cover = <<>>

\* ---- approx_multiuniverse
\* the arguments are within the contract: they pass the checks and every
\* cost is a finite number
MultiArgsValid(a) ==
  /\ MultiValidate(a) = ""
  /\ a.costs_given => \A id \in DOMAIN a.costs : a.costs[id] # Inf

\* the elements of universe u that the sets of ids cover
MultiCovered(sets, ids, u) ==
  UNION {sets[id][u] : id \in {x \in ids \cap DOMAIN sets : u \in DOMAIN sets[x]}}

\* the needed count of a set against the residual universes, computed from
\* the universes themselves
TrueNeeded(l, sets, set_id) ==
  SumOver(DOMAIN sets[set_id],
          [u \in DOMAIN sets[set_id] |->
             Min(l.num_left_to_cover[u],
                 Cardinality(sets[set_id][u] \cap l.universes[u]))])

\* C2: when approx_multiuniverse returns, the returned sets cover in every
\* universe u at least ceil(p_u*|U_u|) elements of U_u, each universe counted
\* on its own.
C2_MultiCoversEachTarget ==
  multi_locals.pc = "done" =>
    LET U == MultiUniverses(multi_args.sets)
    IN  \A u \in DOMAIN U :
          LET covered == MultiCovered(multi_args.sets,
                                      multi_locals.set_ids_in_cover, u)
              pnum == IF multi_args.universe_p_given
                      THEN multi_args.universe_p[u] ELSE PDen
          IN  /\ covered \subseteq U[u]
              /\ Cardinality(covered) * PDen >= pnum * Cardinality(U[u])

\* C2 witness: a returned cover of two sets over two universes, one of them
\* with a fractional target, with an element value that is in both universes
C2_Witness ==
  /\ multi_locals.pc = "done"
  /\ Cardinality(multi_locals.set_ids_in_cover) = 2
  /\ DOMAIN multi_locals.universes = UniverseIds
  /\ \E u \in UniverseIds :
        /\ multi_locals.universe_p[u] > 0
        /\ multi_locals.universe_p[u] < PDen
        /\ Cardinality(MultiUniverses(multi_args.sets)[u]) = NumElems
  /\ \E e \in Elements : \A u \in UniverseIds :
        e \in MultiUniverses(multi_args.sets)[u]

\* the step that puts a set into the cover
IsSelection ==
  /\ multi_locals.pc = "scan"
  /\ multi_locals'.pc = "while"
  /\ multi_locals'.set_ids_in_cover # multi_locals.set_ids_in_cover

C4_InfeasibleIsSignalled ==
  (/\ multi_locals.curr_rank_index >= Len(multi_locals.rank_vals)
   /\ SomeLeftToCover(multi_locals)
   /\ multi_locals.pc \notin {"while", "scan"})
    => multi_locals.pc = "CoverageInfeasible"

\* C5: with a negative cost, a universe_p value outside [0,1], or a missing
\* entry of costs, ranks or universe_p, the call raises before the loop: the
\* cover is empty and nothing was scanned or memoized.
MultiArgsInvalid(a) ==
  \/ a.costs_given /\ \E id \in DOMAIN a.costs : a.costs[id] < 0
  \/ a.costs_given /\ DOMAIN a.sets \ DOMAIN a.costs # {}
  \/ a.ranks_given /\ DOMAIN a.sets \ DOMAIN a.ranks # {}
  \/ a.universe_p_given
       /\ \E u \in DOMAIN a.universe_p : a.universe_p[u] \notin 0..PDen
  \/ a.universe_p_given
       /\ (UNION {DOMAIN a.sets[id] : id \in DOMAIN a.sets})
             \ DOMAIN a.universe_p # {}

C5_MultiRaisesBeforeLoop ==
  (multi_locals.pc # "start" /\ MultiArgsInvalid(multi_args)) =>
    /\ multi_locals.pc = "ValueError"
    /\ multi_locals.set_ids_in_cover = {}
    /\ multi_locals.to_scan = <<>>
    /\ multi_locals.memoized_intersect_counts = EmptyDict

\* C5 witness: the call has raised for a set without a rank
C5_Witness ==
  /\ multi_locals.pc = "ValueError"
  /\ multi_locals.error = "ranks is missing a value for set"
  /\ \E id \in DOMAIN multi_args.sets :
        id \notin DOMAIN multi_args.ranks /\ multi_args.sets[id] # EmptyDict

\* ---- Analyzer

\* float(n) for an integer n >= 0
FloatOfInt(n) == FloatDiv(n, 1)

\* x * n for a float x >= 0 and an integer n >= 0
FloatTimesInt(x, n) ==
  IF x = FloatZero \/ n = 0 THEN FloatZero
  ELSE LET p3 == x.mant[3] * n
           p2 == x.mant[2] * n + p3 \div Limb
           p1 == x.mant[1] * n + p2 \div Limb
           extra == CHOOSE e \in 0..17 :
                      /\ p1 < TopLimb * 2 ^ e
                      /\ \A d \in 0..(e - 1) : p1 >= TopLimb * 2 ^ d
           D == 2 ^ extra
           dropped == (p3 % Limb) % D
       IN  Rounded(<<p1 \div D,
                     (p1 % D) * (Limb \div D) + (p2 % Limb) \div D,
                     ((p2 % Limb) % D) * (Limb \div D) + (p3 % Limb) \div D>>,
                   IF extra = 0 THEN 0 ELSE dropped \div (D \div 2),
                   extra > 0 /\ dropped % (D \div 2) # 0,
                   x.exp + extra)

\* x <= y for floats x, y >= 0
FloatLeq(x, y) ==
  IF x = FloatZero THEN TRUE
  ELSE IF y = FloatZero THEN FALSE
  ELSE IF x.exp # y.exp THEN x.exp < y.exp
  ELSE \/ x.mant[1] < y.mant[1]
       \/ x.mant[1] = y.mant[1] /\ x.mant[2] < y.mant[2]
       \/ x.mant[1] = y.mant[1] /\ x.mant[2] = y.mant[2]
            /\ x.mant[3] <= y.mant[3]

\* the positions an interval of a cover list can contain
Positions ==
  (0 - MaxProbeLen)..(Max(MaxChrs * MaxSeqLen, LongSeqLen) + MaxProbeLen)

\* the positions that lie in some interval of covers
PositionsCovered(covers) ==
  {x \in Positions :
     \E n \in DOMAIN covers : covers[n][1] <= x /\ x < covers[n][2]}

\* the number of intervals of covers, duplicates included, that contain x
Depth(covers, x) ==
  Cardinality({n \in DOMAIN covers : covers[n][1] <= x /\ x < covers[n][2]})

\* the length of the genome of a key (i, j, rc)
GenomeLength(key) == GenomeSize(Gnm(analyzer_args.target_genomes, key).seqs)

\* C7: every interval (start, end) that the scanner returns for a probe in
\* a sequence s satisfies 0 <= start < end <= len(s), also when the k-mer hit
\* is so close to the start of s that the alignment start a is negative.
C7_ScannerIntervalsInSequence ==
  \A n \in DOMAIN analyzer_self.probe_cover_ranges :
    \A p \in DOMAIN analyzer_self.probe_cover_ranges[n] :
      \A c \in Range(analyzer_self.probe_cover_ranges[n][p]) :
        /\ 0 <= c[1]
        /\ c[1] < c[2]
        /\ c[2] <= Len(analyzer_self.sequences[n])

\* C8: after run(), bp_covered[i][j][rc] is the length of the merged union
\* of covers[i][j][rc], that is the number of positions in some cover, and
\* it is at most the length of genome (i, j).
C8_BpCoveredWithinGenome ==
  analyzer_self.pc = "done" =>
    \A key \in DOMAIN analyzer_self.bp_covered :
      /\ analyzer_self.bp_covered[key] =
           Cardinality(PositionsCovered(analyzer_self.target_covers[key]))
      /\ analyzer_self.bp_covered[key] <= GenomeLength(key)

\* the sum of end - start over covers, position by position
SumOfDepths(covers) ==
  SumOver(Positions, [x \in Positions |-> Depth(covers, x)])

\* C9 as claimed: after run(), avg_depth[i][j][rc] * genome_length(i, j) is
\* the sum of end - start over the unmerged covers, and that sum is at least
\* bp_covered[i][j][rc], so that avg_depth >= bp_covered / genome_length.
C9_DepthTimesLengthIsSum ==
  analyzer_self.pc = "done" =>
    \A key \in DOMAIN analyzer_self.average_coverage :
      LET avg == analyzer_self.average_coverage[key]
          total == SumOfDepths(analyzer_self.target_covers[key])
      IN  /\ FloatTimesInt(avg, GenomeLength(key)) = FloatOfInt(total)
          /\ total >= analyzer_self.bp_covered[key]
          /\ FloatLeq(FloatDiv(analyzer_self.bp_covered[key],
                               GenomeLength(key)), avg)

\* C9 as amended: after run(), avg_depth[i][j][rc] is the float quotient of
\* the sum of end - start over the unmerged covers and genome_length(i, j);
\* that sum is at least bp_covered[i][j][rc], and avg_depth is at least the
\* quotient bp_covered / genome_length.
C9_AverageDepthIsQuotient ==
  analyzer_self.pc = "done" =>
    \A key \in DOMAIN analyzer_self.average_coverage :
      LET avg == analyzer_self.average_coverage[key]
          total == SumOfDepths(analyzer_self.target_covers[key])
      IN  /\ GenomeLength(key) > 0
          /\ avg = FloatDiv(total, GenomeLength(key))
          /\ total >= analyzer_self.bp_covered[key]
          /\ FloatLeq(FloatDiv(analyzer_self.bp_covered[key],
                               GenomeLength(key)), avg)

\* C9 witness: run() is over and in some genome of two chromosomes the
\* covers overlap, so that the unmerged sum is larger than bp_covered, and
\* the sum is not a multiple of the length of the genome
C9_Witness ==
  /\ analyzer_self.pc = "done"
  /\ \E key \in DOMAIN analyzer_self.average_coverage :
       /\ analyzer_self.bp_covered[key] > 0
       /\ TotalLength(analyzer_self.target_covers[key])
            > analyzer_self.bp_covered[key]
       /\ TotalLength(analyzer_self.target_covers[key]) % GenomeLength(key) # 0
       /\ Len(Gnm(analyzer_args.target_genomes, key).seqs) > 1

\* target_covers of a run of the same Analyzer that draws kmer_probe_map
RunCovers(a, kmer_probe_map) ==
  [key \in Range(IterTargetGenomes(a.target_genomes)) |->
     LET gnm == Gnm(a.target_genomes, key)
     IN  GnmCovers(a, ScannedSequences(gnm, key[3]),
                   ProbeCoverRanges(a, kmer_probe_map, gnm, key[3]), 1, 0)]

\* C10: two runs on the same inputs have the same outputs at every stage:
\* the covers that a finished run has found are the covers of every run of
\* the same Analyzer.
C10_SameOutputsEveryRun ==
  analyzer_self.pc = "done" =>
    \A kmer_probe_map \in KmerProbeMaps(analyzer_args.probes,
                                        analyzer_args.kmer_size,
                                        analyzer_args.num_kmers_per_probe) :
       RunCovers(analyzer_args, kmer_probe_map) = analyzer_self.target_covers

\* ---- approx on the example sets
\* the place of id in the order in which the candidates are iterated
PlaceIn(order, id) == CHOOSE n \in DOMAIN order : order[n] = id

\* approx was called with the example sets and p = 1
ScenarioFullCover ==
  approx_args.sets = ScenarioSets /\ approx_args.p = PDen

\* the iteration order puts B and D before both A and C
BAndDFirst(order) ==
  \A x \in {2, 4} : \A y \in {1, 3} : PlaceIn(order, x) < PlaceIn(order, y)

\* C11 as claimed: for A={1,2,3}, B={3,4,5}, C={5,6,7}, D={1,7}, unit costs
\* and p = 1, approx returns a cover of all seven elements made of exactly 3
\* sets, for every iteration order of the set ids.
C11_CoverOfThreeSets ==
  ScenarioFullCover =>
    /\ approx_locals.pc \in {"start", "loop", "done"}
    /\ approx_locals.pc = "done" =>
         /\ ApproxCovered(ScenarioSets, approx_locals.set_ids_in_cover) = 1..7
         /\ Cardinality(approx_locals.set_ids_in_cover) = 3

\* C11 as amended: approx returns a cover of all seven elements; it is the
\* three sets A, B, C unless the iteration order puts B and D before both A
\* and C, and then it is all four sets.
C11_CoverOfThreeOrFourSets ==
  ScenarioFullCover =>
    /\ approx_locals.pc \in {"start", "loop", "done"}
    /\ approx_locals.pc = "done" =>
         /\ ApproxCovered(ScenarioSets, approx_locals.set_ids_in_cover) = 1..7
         /\ approx_locals.set_ids_in_cover =
              IF BAndDFirst(approx_args.order) THEN {1, 2, 3, 4} ELSE {1, 2, 3}

\* C11 witness: approx has returned A, B, C although D came first in the
\* iteration order
C11_Witness ==
  /\ ScenarioFullCover
  /\ approx_locals.pc = "done"
  /\ approx_args.order[1] = 4
  /\ approx_locals.set_ids_in_cover = {1, 2, 3}

\* ---- approx stops at the target
\* the step of approx that puts a set into the cover
ApproxIsSelection ==
  /\ approx_locals.pc = "loop"
  /\ approx_locals'.set_ids_in_cover # approx_locals.set_ids_in_cover

\* approx was called with the example sets and p = 0.5
ScenarioHalfCover ==
  approx_args.sets = ScenarioSets /\ 2 * approx_args.p = PDen

\* C12: approx stops as soon as the target is reached: whenever a set is put
\* into the cover, the sets chosen before it cover fewer than ceil(p*|U|)
\* elements (for an integer count c, c < ceil(p*|U|) is c*PDen < pnum*|U|);
\* for the example sets and p = 0.5 the returned cover is exactly two sets
\* that cover at least 4 elements.
C12_StopsAtTarget ==
  [][/\ ApproxIsSelection =>
          Cardinality(ApproxCovered(approx_args.sets,
                                    approx_locals.set_ids_in_cover)) * PDen
            < approx_args.p * Cardinality(ApproxUniverse(approx_args.sets))
     /\ (ScenarioHalfCover /\ approx_locals'.pc # "loop") =>
          /\ approx_locals'.pc = "done"
          /\ Cardinality(approx_locals'.set_ids_in_cover) = 2
          /\ Cardinality(ApproxCovered(ScenarioSets,
                                       approx_locals'.set_ids_in_cover)) >= 4
    ]_vars

\* C12 witness: approx has returned two of the example sets for p = 0.5, D
\* among them, and they cover exactly 4 elements
C12_Witness ==
  /\ ScenarioHalfCover
  /\ approx_locals.pc = "done"
  /\ 4 \in approx_locals.set_ids_in_cover
  /\ Cardinality(ApproxCovered(ScenarioSets,
                               approx_locals.set_ids_in_cover)) = 4

\* ---- approx_multiuniverse with one universe
\* lines 228-235: the input of approx_multiuniverse made from an input of
\* approx: a single universe 0, each sets[set_id] found in sets[set_id][0],
\* universe_p = {0: p}, the default ranks and the same iteration order
OneUniverse(a) ==
  [sets |-> [set_id \in DOMAIN a.sets |-> [u \in {0} |-> a.sets[set_id]]],
   order |-> a.order,
   costs_given |-> a.costs_given, costs |-> a.costs,
   universe_p_given |-> TRUE, universe_p |-> [u \in {0} |-> a.p],
   ranks_given |-> FALSE, ranks |-> UnitRanks]

\* approx on an input that passes its checks, and approx_multiuniverse on
\* the same input in one universe, each at its own pace
OneUniverseInit ==
  /\ approx_args \in {a \in ApproxArgs : ~ApproxArgsInvalid(a)}
  /\ approx_locals = ApproxStart
  /\ multi_args = OneUniverse(approx_args)
  /\ multi_locals = MultiStart
  /\ analyzer_args = NotCalled
  /\ analyzer_self = NotCalled
  /\ LibraryNotCalled

OneUniverseNext == ApproxNext \/ MultiNext

SpecOneUniverse == OneUniverseInit /\ [][OneUniverseNext]_vars

\* where a call has ended by raising
Raised(pc) == pc \in {"ValueError", "KeyError", "IndexError"}

\* C13: approx_multiuniverse generalizes approx: on an input of approx in one
\* universe 0, with the same iteration order, whenever the two solvers are at
\* the head of their loops with as many sets selected they have selected the
\* same sets and have the same residual universe and the same candidates
\* left in the same order (so the k-th selection is the same for every k);
\* one returns only if the other does not raise, and they return the same
\* cover.
C13_MultiGeneralizesApprox ==
  /\ (/\ approx_locals.pc \in {"loop", "done"}
      /\ multi_locals.pc \in {"while", "done"}
      /\ Cardinality(approx_locals.set_ids_in_cover)
           = Cardinality(multi_locals.set_ids_in_cover)) =>
        /\ multi_locals.set_ids_in_cover = approx_locals.set_ids_in_cover
        /\ multi_locals.set_ids_not_in_cover
             = approx_locals.set_ids_not_in_cover
        /\ multi_locals.universes[0] = approx_locals.universe
        /\ multi_locals.num_left_to_cover[0] = approx_locals.num_left_to_cover
  /\ approx_locals.pc = "done" => ~Raised(multi_locals.pc)
  /\ multi_locals.pc = "done" => ~Raised(approx_locals.pc)
  /\ (approx_locals.pc = "done" /\ multi_locals.pc = "done") =>
        multi_locals.set_ids_in_cover = approx_locals.set_ids_in_cover

\* C13 witness: both solvers have returned the same two sets, for costs
\* that differ
C13_Witness ==
  /\ approx_locals.pc = "done"
  /\ multi_locals.pc = "done"
  /\ approx_args.costs_given
  /\ Cardinality(multi_locals.set_ids_in_cover) = 2
  /\ multi_locals.set_ids_in_cover = approx_locals.set_ids_in_cover
  /\ \E s, t \in DOMAIN approx_args.costs :
        approx_args.costs[s] < approx_args.costs[t]

\* ---- ranks and scaled costs
RECURSIVE MultiScanAll(_, _, _)
\* lines 342-394: the for loop over the candidates of list, in order; it
\* ends early when the body raises
MultiScanAll(l, a, list) ==
  IF list = <<>> \/ l.pc # "scan" THEN l
  ELSE MultiScanAll(MultiScanOne(l, a, Head(list)), a, Tail(list))

RECURSIVE MultiLoop(_, _)
\* lines 331-420: the while loop, from the local variables l at its head
MultiLoop(l, a) ==
  IF l.pc # "while" THEN l
  ELSE IF ~SomeLeftToCover(l) THEN [l EXCEPT !.pc = "done"]
  ELSE LET scanned ==
             MultiScanAll([l EXCEPT !.pc = "scan", !.id_min_ratio = None,
                                    !.min_ratio = InfRatio],
                          a, l.set_ids_not_in_cover)
       IN  IF scanned.pc # "scan" THEN scanned
           ELSE IF scanned.id_min_ratio = None
           THEN MultiLoop(MultiAdvanceRank(scanned), a)
           ELSE MultiLoop(MultiSelect(scanned, a), a)

\* approx_multiuniverse(a) as a whole call: how it ends (pc) and what it
\* has in set_ids_in_cover then
ApproxMultiuniverse(a) == MultiLoop(MultiSetUp(a), a)

\* the call in progress ends as the whole call does
MultiLoopIsTheCall ==
  multi_locals.pc \notin {"start", "while", "scan"} =>
    /\ ApproxMultiuniverse(multi_args).pc = multi_locals.pc
    /\ ApproxMultiuniverse(multi_args).set_ids_in_cover
         = multi_locals.set_ids_in_cover

\* the number of elements across all universes is at most TotalElems
TotalElems == Cardinality(UniverseIds) * NumElems

\* the costs and the ranks a call works with
CostOf(a, set_id) == IF a.costs_given THEN a.costs[set_id] ELSE 1
RankOf(a, set_id) == IF a.ranks_given THEN a.ranks[set_id] ELSE 1

\* lines 211-220: the same sets without ranks, each cost multiplied by
\* C^rank
ScaledCosts(a, C) ==
  [a EXCEPT !.costs_given = TRUE,
            !.costs = [set_id \in DOMAIN a.sets |->
                         CostOf(a, set_id) * C ^ RankOf(a, set_id)],
            !.ranks_given = FALSE]

\* the call returns the cover that the call on the costs scaled by C returns
SameAsScaled(C) ==
  /\ ApproxMultiuniverse(ScaledCosts(multi_args, C)).pc = "done"
  /\ ApproxMultiuniverse(ScaledCosts(multi_args, C)).set_ids_in_cover
       = multi_locals.set_ids_in_cover

ScenarioIntervals == << <<0, 5>>, <<4, 7>>, <<10, 12>>, <<11, 15>> >>

\* the half-open intervals [start, end) with 0 <= start < end <= MaxCoord
Intervals == {c \in (0..MaxCoord) \X (0..MaxCoord) : c[1] < c[2]}

\* the lists a caller may pass: up to MaxIntervals intervals in any order,
\* duplicates allowed, and the list of the example
IntervalLists ==
  UNION {[1..n -> Intervals] : n \in 0..MaxIntervals} \cup {ScenarioIntervals}

MergeOverlappingInit ==
  /\ merge_overlapping_call \in
       {[pc |-> "start", list |-> list, merged |-> <<>>] :
          list \in IntervalLists}
  /\ duplicate_filter_self = NotCalled
  /\ approx_args = NotCalled
  /\ approx_locals = NotCalled
  /\ multi_args = NotCalled
  /\ multi_locals = NotCalled
  /\ analyzer_args = NotCalled
  /\ analyzer_self = NotCalled

\* merge_overlapping(list) returns
MergeOverlappingCall ==
  /\ merge_overlapping_call.pc = "start"
  /\ merge_overlapping_call' =
       [merge_overlapping_call EXCEPT
          !.pc = "done",
          !.merged = MergeOverlapping(merge_overlapping_call.list)]
  /\ UNCHANGED <<ApproxIdle, MultiIdle, AnalyzerIdle, duplicate_filter_self>>

MergeOverlappingNext == MergeOverlappingCall

SpecMergeOverlapping ==
  MergeOverlappingInit /\ [][MergeOverlappingNext]_vars

\* the points that lie in some interval of list
PointsOf(list) ==
  {x \in 0..Max(MaxCoord, 15) :
     \E n \in DOMAIN list : list[n][1] <= x /\ x < list[n][2]}

\* C15: merge_overlapping is idempotent and independent of the order of its
\* input list; its result is sorted, its intervals are pairwise disjoint and
\* do not touch, and it covers exactly the points of the input;
\* [(0,5),(4,7),(10,12),(11,15)] yields [(0,7),(10,15)] of total length 12,
\* and the empty list yields the empty list of length 0.
C15_MergeIsCanonical ==
  merge_overlapping_call.pc = "done" =>
    LET list == merge_overlapping_call.list
        merged == merge_overlapping_call.merged
    IN  /\ MergeOverlapping(merged) = merged
        /\ \A f \in Perms(DOMAIN list) :
              MergeOverlapping([n \in DOMAIN list |-> list[f[n]]]) = merged
        /\ \A n \in DOMAIN merged : merged[n][1] < merged[n][2]
        /\ \A n \in 1..(Len(merged) - 1) : merged[n][2] < merged[n + 1][1]
        /\ PointsOf(merged) = PointsOf(list)
        /\ list = ScenarioIntervals =>
              /\ merged = << <<0, 7>>, <<10, 15>> >>
              /\ TotalLength(merged) = 12
        /\ list = <<>> => (merged = <<>> /\ TotalLength(merged) = 0)

\* C15 witness: three intervals given out of order, two that overlap and two
\* that only share an endpoint, have been merged into one
C15_Witness ==
  /\ merge_overlapping_call.pc = "done"
  /\ Len(merge_overlapping_call.list) = 3
  /\ Len(merge_overlapping_call.merged) = 1
  /\ LET list == merge_overlapping_call.list
     IN  /\ list[1][1] > list[2][1]
         /\ \E m, n \in DOMAIN list : list[m][2] = list[n][1]
         /\ \E m, n \in DOMAIN list :
               list[m][1] < list[n][1] /\ list[n][1] < list[m][2]

\* ---- DuplicateFilter
\* A probe is its nucleotide string; equality is on the literal string.
\* the input and the desired output of test_basic
ScenarioProbes ==
  <<"ATCGTCGCGG", "ATCGTAGCGG", "ATCGTCACGG", "ATCGTAGCGG", "ATTGTCGCGG",
    "ATCGTCGCGG">>
ScenarioDesiredOutput ==
  <<"ATCGTCGCGG", "ATCGTAGCGG", "ATCGTCACGG", "ATTGTCGCGG">>

FilterProbes == {"AT", "TA", "AA"}

\* the lists of probes a caller may pass
ProbeInputs ==
  UNION {[1..n -> FilterProbes] : n \in 0..MaxInputProbes}
    \cup {ScenarioProbes}

RECURSIVE KeepFirstSeen(_, _)
\* the probes of input that are not in output yet, appended to output in
\* the order in which they are first seen
KeepFirstSeen(input, output) ==
  IF input = <<>> THEN output
  ELSE IF Head(input) \in Range(output)
  THEN KeepFirstSeen(Tail(input), output)
  ELSE KeepFirstSeen(Tail(input), Append(output, Head(input)))

RECURSIVE KeepLastSeen(_, _)
\* the probes of input that do not come again later, appended to output
KeepLastSeen(input, output) ==
  IF input = <<>> THEN output
  ELSE IF Head(input) \in Range(Tail(input))
  THEN KeepLastSeen(Tail(input), output)
  ELSE KeepLastSeen(Tail(input), Append(output, Head(input)))

\* a variant that keeps the last occurrence of each probe
FilterDuplicates_LastSeen(input) == KeepLastSeen(input, <<>>)

\* DuplicateFilter._filter(input): dedup, preserving first-seen order
FilterDuplicates(input) == KeepFirstSeen(input, <<>>)

DuplicateFilterInit ==
  /\ duplicate_filter_self \in
       {[pc |-> "start", input |-> input, input_probes |-> <<>>,
         output_probes |-> <<>>] : input \in ProbeInputs}
  /\ merge_overlapping_call = NotCalled
  /\ approx_args = NotCalled
  /\ approx_locals = NotCalled
  /\ multi_args = NotCalled
  /\ multi_locals = NotCalled
  /\ analyzer_args = NotCalled
  /\ analyzer_self = NotCalled

\* f.filter(input): input_probes keeps the input, output_probes the
\* result of _filter
DuplicateFilterFilter ==
  /\ duplicate_filter_self.pc = "start"
  /\ duplicate_filter_self' =
       [duplicate_filter_self EXCEPT
          !.pc = "done",
          !.input_probes = duplicate_filter_self.input,
          !.output_probes = FilterDuplicates(duplicate_filter_self.input)]
  /\ UNCHANGED <<ApproxIdle, MultiIdle, AnalyzerIdle, merge_overlapping_call>>

DuplicateFilterNext == DuplicateFilterFilter

SpecDuplicateFilter == DuplicateFilterInit /\ [][DuplicateFilterNext]_vars

\* the place of the first occurrence of probe in list
FirstSeen(list, probe) ==
  CHOOSE n \in DOMAIN list :
    list[n] = probe /\ \A m \in 1..(n - 1) : list[m] # probe

\* C16: DuplicateFilter.filter outputs every distinct probe of the input
\* exactly once, in the order of the first occurrences in the input, and
\* input_probes holds the whole input, duplicates included; the input of
\* test_basic gives its desired output.
C16_FirstSeenOnce ==
  duplicate_filter_self.pc = "done" =>
    LET input == duplicate_filter_self.input
        output == duplicate_filter_self.output_probes
    IN  /\ duplicate_filter_self.input_probes = input
        /\ Range(output) = Range(input)
        /\ \A m, n \in DOMAIN output : output[m] = output[n] => m = n
        /\ \A m, n \in DOMAIN output :
              m < n => FirstSeen(input, output[m]) < FirstSeen(input, output[n])
        /\ input = ScenarioProbes => output = ScenarioDesiredOutput

\* C16 witness: filter has run on the input of test_basic, in which the
\* first probe comes again last, and four probes are left
C16_Witness ==
  /\ duplicate_filter_self.pc = "done"
  /\ duplicate_filter_self.input = ScenarioProbes
  /\ Len(duplicate_filter_self.input_probes) = 6
  /\ Len(duplicate_filter_self.output_probes) = 4

\* ---- the memoized intersection counts
\* C17: every memoized count is the size of the intersection of its set
\* with the current residual universe: memoized_intersect_counts[u][s] is
\* |sets[s][u] /\ universes[u]|, because the counts of a universe are dropped
\* when a selection shrinks it; so every candidate still to be scanned gets
\* the needed count that recomputing every intersection gives.
C17_MemoIsCurrent ==
  /\ \A u \in DOMAIN multi_locals.memoized_intersect_counts :
       \A s \in DOMAIN multi_locals.memoized_intersect_counts[u] :
         multi_locals.memoized_intersect_counts[u][s] =
           Cardinality(multi_args.sets[s][u] \cap multi_locals.universes[u])
  /\ multi_locals.pc = "scan" =>
       \A s \in Range(multi_locals.to_scan) :
         NumNeededCoveredAcrossUniverses(multi_locals, multi_args.sets, s)
           = TrueNeeded(multi_locals, multi_args.sets, s)

\* C17 witness: a set is in the cover, the counts of a universe that shrank
\* are gone, and the next candidate of the scan has a count memoized for
\* another universe, in which it covers something
C17_Witness ==
  /\ multi_locals.pc = "scan"
  /\ multi_locals.set_ids_in_cover # {}
  /\ multi_locals.to_scan # <<>>
  /\ \E u, v \in DOMAIN multi_locals.universes :
        /\ multi_locals.universes[u] # MultiUniverses(multi_args.sets)[u]
        /\ multi_locals.memoized_intersect_counts[u] = EmptyDict
        /\ Head(multi_locals.to_scan)
             \in DOMAIN multi_locals.memoized_intersect_counts[v]
        /\ multi_locals.memoized_intersect_counts[v]
             [Head(multi_locals.to_scan)] > 0

\* ---- both solvers
\* a call of approx or a call of approx_multiuniverse
SolversInit == ApproxInit \/ MultiInit

SolversNext == ApproxNext \/ MultiNext

SpecSolvers == SolversInit /\ [][SolversNext]_vars

\* C18: at the head of the loop of either solver, no residual universe has
\* an element of a set that is in the cover: for approx, universe and
\* sets[s] are disjoint for every chosen s; for approx_multiuniverse,
\* universes[u] and sets[s][u] are disjoint for every chosen s and every
\* universe u of s.
C18_ChosenSetsAreSpent ==
  /\ approx_locals.pc = "loop" =>
       \A s \in approx_locals.set_ids_in_cover :
         approx_locals.universe \cap approx_args.sets[s] = {}
  /\ multi_locals.pc = "while" =>
       \A s \in multi_locals.set_ids_in_cover :
         \A u \in DOMAIN multi_args.sets[s] :
           multi_locals.universes[u] \cap multi_args.sets[s][u] = {}

\* C18 witness: approx_multiuniverse is at the head of its loop with a set
\* in the cover and, in a universe of that set, elements left to cover
C18_Witness ==
  /\ multi_locals.pc = "while"
  /\ \E s \in multi_locals.set_ids_in_cover :
       \E u \in DOMAIN multi_args.sets[s] :
         /\ multi_locals.universes[u] # {}
         /\ multi_locals.num_left_to_cover[u] > 0

\* C18 witness for approx: the same at the head of the loop of approx
C18_WitnessApprox ==
  /\ approx_locals.pc = "loop"
  /\ approx_locals.set_ids_in_cover # {}
  /\ approx_locals.num_left_to_cover > 0

\* ---- the greedy choice
\* id is a greedy choice among the candidates of list, given their costs
\* and needed counts: its needed count is not 0, its ratio cost/needed is
\* finite and at most that of every candidate with a needed count above 0
\* (c1/n1 <= c2/n2 is c1*n2 <= c2*n1), and the candidates of the same ratio
\* come later in list
IsGreedyChoice(id, list, costs, needed) ==
  LET cands == {s \in Range(list) : needed[s] > 0}
  IN  /\ id \in cands
      /\ costs[id] # Inf
      /\ \A s \in cands :
            \/ costs[s] = Inf
            \/ costs[id] * needed[s] < costs[s] * needed[id]
            \/ /\ costs[id] * needed[s] = costs[s] * needed[id]
               /\ PlaceIn(list, id) <= PlaceIn(list, s)

\* the set that a step puts into a cover
Selected(before, after) == CHOOSE id \in after : id \notin before

\* C19: at every selection of approx and of approx_multiuniverse, the
\* selected set has the least ratio cost/needed among the sets not chosen
\* yet (of the current rank, for approx_multiuniverse) with needed > 0, where
\* needed is the sum over the universes of min(deficit, |set /\ residual
\* universe|); a set with needed = 0 is never selected, and among the sets of
\* the least ratio the first in iteration order is selected.
C19_SelectionIsGreedy ==
  [][/\ (/\ ApproxIsSelection
         /\ approx_locals'.set_ids_in_cover \subseteq DOMAIN approx_args.sets) =>
          LET l == approx_locals
          IN  IsGreedyChoice(
                Selected(l.set_ids_in_cover, approx_locals'.set_ids_in_cover),
                l.set_ids_not_in_cover, l.costs,
                [s \in DOMAIN approx_args.sets |->
                   Min(l.num_left_to_cover,
                       Cardinality(approx_args.sets[s] \cap l.universe))])
     /\ IsSelection =>
          LET l == multi_locals
              of_rank == SelectSeq(l.set_ids_not_in_cover,
                           LAMBDA s : l.ranks[s] = l.rank_vals[l.curr_rank_index + 1])
          IN  IsGreedyChoice(
                Selected(l.set_ids_in_cover, multi_locals'.set_ids_in_cover),
                of_rank, l.costs,
                [s \in DOMAIN multi_args.sets |->
                   TrueNeeded(l, multi_args.sets, s)])
    ]_vars

\* C19 witness: approx_multiuniverse has selected the first of two sets of
\* the same rank that cost the same and cover as many elements of universes
\* that are to be covered in full, and is not done
C19_Witness ==
  /\ multi_locals.pc = "while"
  /\ SomeLeftToCover(multi_locals)
  /\ \A u \in DOMAIN multi_locals.universe_p : multi_locals.universe_p[u] = PDen
  /\ \E s, t \in DOMAIN multi_args.sets :
        /\ multi_locals.set_ids_in_cover = {s}
        /\ s # t
        /\ multi_args.order[1] = s
        /\ multi_locals.ranks[s] = multi_locals.ranks[t]
        /\ multi_locals.costs[s] = multi_locals.costs[t]
        /\ multi_locals.costs[s] \in 1..MaxCost
        /\ SumOver(DOMAIN multi_args.sets[s],
                   [u \in DOMAIN multi_args.sets[s] |->
                      Cardinality(multi_args.sets[s][u])])
             = SumOver(DOMAIN multi_args.sets[t],
                       [u \in DOMAIN multi_args.sets[t] |->
                          Cardinality(multi_args.sets[t][u])])

\* ---- what a candidate scan changes
\* the step that examines the next candidate of a scan
IsScanStep ==
  multi_locals.pc = "scan" /\ multi_locals.to_scan # <<>>

\* the step between two scans, after the last candidate was examined
IsAfterScanStep ==
  multi_locals.pc = "scan" /\ multi_locals.to_scan = <<>>

\* a memoized count is dropped or replaced by the step
MemoEntryLost ==
  \E u \in DOMAIN multi_locals.memoized_intersect_counts :
    \E s \in DOMAIN multi_locals.memoized_intersect_counts[u] :
      \/ u \notin DOMAIN multi_locals'.memoized_intersect_counts
      \/ s \notin DOMAIN multi_locals'.memoized_intersect_counts[u]
      \/ multi_locals'.memoized_intersect_counts[u][s]
           # multi_locals.memoized_intersect_counts[u][s]

\* C20 as claimed: while the candidates are scanned neither the universes
\* nor the memoized counts are modified; both change only between scans,
\* after the scan has determined its winner.
C20_ScanChangesNothing ==
  [][/\ IsScanStep =>
          /\ multi_locals'.universes = multi_locals.universes
          /\ multi_locals'.memoized_intersect_counts
               = multi_locals.memoized_intersect_counts
     /\ (/\ multi_locals.pc # "start"
         /\ \/ multi_locals'.universes # multi_locals.universes
            \/ multi_locals'.memoized_intersect_counts
                 # multi_locals.memoized_intersect_counts) =>
          IsAfterScanStep
    ]_vars

\* C20 as amended: while the candidates are scanned the universes are not
\* modified and no memoized count is dropped or replaced; the scan only adds
\* counts, for the candidate it examines, each the size of the intersection
\* of the candidate with the residual universe.  The universes change and
\* memoized counts are dropped only between scans, after the scan has
\* determined its winner.
C20_ScanOnlyAddsCounts ==
  [][/\ IsScanStep =>
          /\ multi_locals'.universes = multi_locals.universes
          /\ ~MemoEntryLost
          /\ \A u \in DOMAIN multi_locals'.memoized_intersect_counts :
               \A s \in DOMAIN multi_locals'.memoized_intersect_counts[u]
                         \ DOMAIN multi_locals.memoized_intersect_counts[u] :
                 /\ s = Head(multi_locals.to_scan)
                 /\ multi_locals'.memoized_intersect_counts[u][s] =
                      Cardinality(multi_args.sets[s][u]
                                    \cap multi_locals.universes[u])
     /\ (/\ multi_locals.pc # "start"
         /\ \/ multi_locals'.universes # multi_locals.universes
            \/ MemoEntryLost) =>
          IsAfterScanStep
    ]_vars

\* C20 witness: in the middle of the first scan, with nothing selected yet,
\* a count is memoized for the candidate that was just examined
C20_Witness ==
  /\ multi_locals.pc = "scan"
  /\ multi_locals.set_ids_in_cover = {}
  /\ multi_locals.to_scan # <<>>
  /\ Len(multi_locals.to_scan) < Len(multi_locals.set_ids_not_in_cover)
  /\ \E u \in DOMAIN multi_locals.memoized_intersect_counts :
        multi_locals.memoized_intersect_counts[u] # EmptyDict

\* ---- the coordinates of a genome of several chromosomes
\* the (i, j, rc) that _find_covers_in_target_genomes handled last
LastScanned ==
  LET keys == IterTargetGenomes(analyzer_args.target_genomes)
  IN  keys[Len(keys) - Len(analyzer_self.todo)]

\* some (i, j, rc) has been handled
SomeScanned ==
  /\ analyzer_self.pc # "run"
  /\ Len(analyzer_self.todo)
       < Len(IterTargetGenomes(analyzer_args.target_genomes))

\* the sum of the lengths of the chromosomes that precede chromosome n in
\* the declared order of the genome
OffsetOf(gnm, n) == SumOver(1..(n - 1), [m \in 1..(n - 1) |-> Len(gnm.seqs[m])])

\* the intervals the scanner found in chromosome n, shifted by offset
ShiftedCovers(n, offset) ==
  {<<c[1] + offset, c[2] + offset>> :
     c \in UNION {Range(analyzer_self.probe_cover_ranges[n][p]) :
                    p \in DOMAIN analyzer_self.probe_cover_ranges[n]}}

\* what was scanned is each chromosome in the declared order, reverse-
\* complemented on its own for the reverse strand, and what is recorded is
\* exactly the intervals found in each chromosome shifted by its offset
CoversAreShifted ==
  SomeScanned =>
    LET key == LastScanned
        gnm == Gnm(analyzer_args.target_genomes, key)
    IN  /\ Len(analyzer_self.sequences) = Len(gnm.seqs)
        /\ \A n \in DOMAIN gnm.seqs :
             /\ Len(analyzer_self.sequences[n]) = Len(gnm.seqs[n])
             /\ \A x \in 1..Len(gnm.seqs[n]) :
                  analyzer_self.sequences[n][x] =
                    IF key[3]
                    THEN RcMap(gnm.seqs[n][Len(gnm.seqs[n]) + 1 - x])
                    ELSE gnm.seqs[n][x]
        /\ Range(analyzer_self.target_covers[key]) =
             UNION {ShiftedCovers(n, OffsetOf(gnm, n)) : n \in DOMAIN gnm.seqs}
        /\ Len(analyzer_self.target_covers[key]) =
             SumOver(DOMAIN gnm.seqs,
                     [n \in DOMAIN gnm.seqs |->
                        SumOver(DOMAIN analyzer_self.probe_cover_ranges[n],
                                [p \in DOMAIN analyzer_self.probe_cover_ranges[n] |->
                                   Len(analyzer_self.probe_cover_ranges[n][p])])])

\* every recorded interval of chromosome n lies within [offset_n,
\* offset_n + len(n)], and the recorded intervals of two chromosomes do not
\* overlap
CoversStayInChromosome ==
  SomeScanned =>
    LET gnm == Gnm(analyzer_args.target_genomes, LastScanned)
    IN  /\ \A n \in DOMAIN gnm.seqs :
             \A c \in ShiftedCovers(n, OffsetOf(gnm, n)) :
               /\ OffsetOf(gnm, n) <= c[1]
               /\ c[2] <= OffsetOf(gnm, n) + Len(gnm.seqs[n])
        /\ \A n, m \in DOMAIN gnm.seqs :
             n < m =>
               \A c \in ShiftedCovers(n, OffsetOf(gnm, n)) :
                 \A d \in ShiftedCovers(m, OffsetOf(gnm, m)) :
                   c[2] <= d[1]

\* C21: on both strands each cover interval found in chromosome c of a
\* genome is recorded shifted by the sum of the lengths of the chromosomes
\* that precede c in the declared order (for the reverse strand each
\* chromosome is reverse-complemented on its own and the order is kept), so
\* every recorded interval lies within [offset_c, offset_c + len(c)] and the
\* recorded coordinates of different chromosomes do not overlap.
C21_CoversWithinTheirChromosome ==
  CoversAreShifted /\ CoversStayInChromosome

\* ---- the rank index
\* the loop is running: at its test or in a scan
InLoop == multi_locals.pc \in {"while", "scan"}

\* some set outside the cover whose rank is the current rank or a later one
\* still covers an element that is needed
LaterRankStillHelps ==
  /\ multi_locals.curr_rank_index < Len(multi_locals.rank_vals)
  /\ \E s \in Range(multi_locals.set_ids_not_in_cover) :
       /\ multi_locals.ranks[s]
            >= multi_locals.rank_vals[multi_locals.curr_rank_index + 1]
       /\ TrueNeeded(multi_locals, multi_args.sets, s) > 0

\* the rank index stays within rank_vals while a universe is short
RanksSuffice ==
  /\ multi_locals.pc # "IndexError"
  /\ (InLoop /\ SomeLeftToCover(multi_locals)) => LaterRankStillHelps

\* C22: for every input that passes the validation of approx_multiuniverse
\* the rank index never runs past the last rank: whenever some universe
\* still has a positive deficit, some unchosen set whose rank is the current
\* rank or a later one has needed > 0, so every access
\* rank_vals[curr_rank_index] is in bounds and the ranks are never exhausted
\* with a deficit outstanding.
C22_RanksNeverExhausted ==
  MultiValidate(multi_args) = "" => RanksSuffice

\* the same for finite costs only
RanksSufficeForFiniteCosts ==
  MultiArgsValid(multi_args) => RanksSuffice

\* with finite costs the rank index is advanced to the last rank with a
\* universe still short, and a set of that rank is then selected
RanksSufficeAtLastRank ==
  /\ MultiArgsValid(multi_args)
  /\ multi_locals.pc = "done"
  /\ Len(multi_locals.rank_vals) > 1
  /\ multi_locals.curr_rank_index + 1 = Len(multi_locals.rank_vals)
  /\ \E s \in multi_locals.set_ids_in_cover :
       multi_locals.ranks[s] = multi_locals.rank_vals[Len(multi_locals.rank_vals)]

\* ---- termination
\* Every statement of the two functions is executed in turn: the code is
\* sequential and nothing suspends it.
FairSpecSolvers == SpecSolvers /\ WF_vars(SolversNext)

\* the arguments pass the checks, every set has a cost, and every cost is
\* a finite number
FiniteValidInput ==
  \/ /\ approx_args # NotCalled
     /\ ~ApproxArgsInvalid(approx_args)
     /\ approx_args.costs_given =>
          \A id \in DOMAIN approx_args.costs : approx_args.costs[id] # Inf
  \/ /\ multi_args # NotCalled
     /\ MultiArgsValid(multi_args)

\* the sum of num_left_to_cover over the universes
TotalDeficit(l) == SumOver(DOMAIN l.num_left_to_cover, l.num_left_to_cover)

\* the iterations of the while loop of approx_multiuniverse that were
\* begun: each one that ended put a set into the cover or increased the
\* rank index, and one more is under way during a scan
MultiIterations(l) ==
  Cardinality(l.set_ids_in_cover) + l.curr_rank_index
    + (IF l.pc = "scan" THEN 1 ELSE 0)

\* an iteration of approx selects a set outside the cover that covers an
\* element of what is left, and the deficit decreases
ApproxIterationSelects ==
  (approx_locals.pc = "loop" /\ approx_locals'.pc # "done") =>
    /\ approx_locals'.pc = "loop"
    /\ approx_locals'.num_left_to_cover < approx_locals.num_left_to_cover
    /\ \E id \in Range(approx_locals.set_ids_not_in_cover) :
         /\ id \notin approx_locals.set_ids_in_cover
         /\ approx_locals'.set_ids_in_cover =
              approx_locals.set_ids_in_cover \cup {id}
         /\ approx_args.sets[id] \cap approx_locals.universe # {}

\* an iteration of approx_multiuniverse ends by increasing the rank index,
\* to a rank that exists, or by selecting a set outside the cover that
\* covers an element that is needed, and then the total deficit decreases
MultiIterationAdvancesOrSelects ==
  IsAfterScanStep =>
    /\ multi_locals'.pc = "while"
    /\ \/ /\ multi_locals'.curr_rank_index = multi_locals.curr_rank_index + 1
          /\ multi_locals'.curr_rank_index < Len(multi_locals.rank_vals)
          /\ multi_locals'.set_ids_in_cover = multi_locals.set_ids_in_cover
          /\ TotalDeficit(multi_locals') = TotalDeficit(multi_locals)
       \/ /\ multi_locals'.curr_rank_index = multi_locals.curr_rank_index
          /\ TotalDeficit(multi_locals') < TotalDeficit(multi_locals)
          /\ \E id \in Range(multi_locals.set_ids_not_in_cover) :
               /\ id \notin multi_locals.set_ids_in_cover
               /\ multi_locals'.set_ids_in_cover =
                    multi_locals.set_ids_in_cover \cup {id}
               /\ TrueNeeded(multi_locals, multi_args.sets, id) > 0

\* no step increases the deficit
DeficitNeverIncreases ==
  /\ approx_locals.pc = "loop" =>
       approx_locals'.num_left_to_cover <= approx_locals.num_left_to_cover
  /\ InLoop => TotalDeficit(multi_locals') <= TotalDeficit(multi_locals)

\* approx went through at most min(|U|, m) iterations, approx_multiuniverse
\* through at most m + (number of distinct ranks)
IterationsBounded ==
  /\ approx_locals.pc \in {"loop", "done"} =>
       Cardinality(approx_locals.set_ids_in_cover)
         <= Min(Cardinality(ApproxUniverse(approx_args.sets)),
                Cardinality(DOMAIN approx_args.sets))
  /\ multi_locals.pc \in {"while", "scan", "done"} =>
       MultiIterations(multi_locals)
         <= Cardinality(DOMAIN multi_args.sets) + Len(multi_locals.rank_vals)

\* the call has returned its cover
Returned ==
  approx_locals.pc = "done" \/ multi_locals.pc = "done"

\* C23: approx and approx_multiuniverse terminate on every valid input with
\* finite costs: each iteration of the loop either advances the rank index
\* or selects a new set that covers at least one element that is still
\* needed, which strictly decreases the total deficit, and the deficit
\* never increases; approx goes through at most min(|U|, m) iterations for
\* m sets and approx_multiuniverse through at most m + (number of distinct
\* ranks); every call returns.
C23_SolversTerminate ==
  /\ [][FiniteValidInput =>
          /\ ApproxIterationSelects
          /\ MultiIterationAdvancesOrSelects
          /\ DeficitNeverIncreases]_vars
  /\ [](FiniteValidInput => IterationsBounded)
  /\ <>(FiniteValidInput => Returned)

\* C23 witness: approx_multiuniverse has returned after it selected a set
\* of the first rank, advanced the rank and selected a set of the second
\* rank, one iteration short of the bound
C23_Witness ==
  /\ multi_locals.pc = "done"
  /\ FiniteValidInput
  /\ Len(multi_locals.rank_vals) = 2
  /\ multi_locals.curr_rank_index = 1
  /\ Cardinality(multi_locals.set_ids_in_cover) = 2
  /\ MultiIterations(multi_locals) + 1
       = Cardinality(DOMAIN multi_args.sets) + Len(multi_locals.rank_vals)

====
